---- MODULE Spec2Model ----
(***************************************************************************)
(* The computer-use agent loop of langgraph_cua.hyperbrowser: the graph    *)
(* START -> call_model -> take_action_or_end -> take_browser_action ->     *)
(* reinvoke_model_or_end -> call_model ..., its CUAState, and the calls it  *)
(* makes to the session provider, the browser driver, the model backend    *)
(* and the stream writer, recorded in order in `log`.  SpecNode adds direct *)
(* calls of the node take_browser_action; SpecZdr runs the loop with the    *)
(* call_model of langgraph_cua.nodes, which reads zdr_enabled and prompt.   *)
(***************************************************************************)
EXTENDS Integers, Sequences, FiniteSets, TLC

\* ------------------------------------------------------------------ bounds
MaxModelCalls == 2      \* model invocations (ainvoke) per run
MaxOutputs == 2         \* items in one reply's tool_outputs
MaxToolCalls == 1       \* function calls in one reply's tool_calls
MaxNewPages == 1        \* "page" events of the browsing context per run

\* ---------------------------------------------------------------- values
None == "None"          \* Python's None, and a key absent from CUAState
NoKey == "NoKey"        \* response_metadata without an "id" key
TokenNames == <<"T0", "T1", "T2", "T3", "T4", "T5">>
PageNames == <<"p0", "p1", "p2", "p3", "p4">>
OutputTypes == {"computer_call", "reasoning"}
FunctionNames == {"go_to_url", "get_current_url"}
Texts == {"", "text"}

SeqsUpTo(S, n) == UNION {[1..k -> S] : k \in 0..n}
NonEmptySeqsUpTo(S, n) == UNION {[1..k -> S] : k \in 1..n}
Last(s) == s[Len(s)]

\* The call identifier of the request in slot `pos` of the reply number r
\* (r = 0: an Assistant message the caller passed in).  Unique and positive.
CallId(r, pos) == r * (MaxOutputs + MaxToolCalls + 1) + pos

\* ------------------------------------------------------------- messages
HumanMessage(shape) ==
  [type |-> "human", content |-> shape, text |-> "task", images |-> 0,
   kw |-> "empty", tool_outputs |-> <<>>, tool_calls |-> <<>>,
   response_id |-> NoKey, tool_call_id |-> 0]

\* kw: additional_kwargs is {} ("empty"), holds keys but no tool_outputs
\* ("other"), or holds the list tool_outputs ("outputs").
AIMessage(r, text, kw, outs, calls, rid) ==
  [type |-> "ai", content |-> "list", text |-> text, images |-> 0,
   kw |-> kw,
   tool_outputs |-> [i \in 1..Len(outs) |->
       [type |-> outs[i],
        call_id |-> IF outs[i] = "computer_call" THEN CallId(r, i) ELSE 0]],
   tool_calls |-> [j \in 1..Len(calls) |->
       [name |-> calls[j], id |-> CallId(r, MaxOutputs + j)]],
   response_id |-> rid, tool_call_id |-> 0]

ToolMessage(payload, call_id, nimages) ==
  [type |-> "tool", content |-> "list", text |-> payload, images |-> nimages,
   kw |-> "other", tool_outputs |-> <<>>, tool_calls |-> <<>>,
   response_id |-> NoKey, tool_call_id |-> call_id]

KwChoices ==
  {[kw |-> "empty", outs |-> <<>>], [kw |-> "other", outs |-> <<>>]}
  \cup {[kw |-> "outputs", outs |-> o] : o \in NonEmptySeqsUpTo(OutputTypes, MaxOutputs)}

\* What the model backend may answer to invocation number r.
Replies(r) ==
  {AIMessage(r, t, k.kw, k.outs, c, rid) :
     t \in Texts, k \in KwChoices, c \in SeqsUpTo(FunctionNames, MaxToolCalls),
     rid \in {NoKey, None, TokenNames[r + 1]}}

\* additional_kwargs.get("tool_outputs"): the list, or nothing (None and the
\* empty list are both falsy and are both read as <<>>).
ToolOutputsOf(m) == IF m.kw = "outputs" THEN m.tool_outputs ELSE <<>>

\* The pending action requests of a message: its computer calls and its
\* function calls, by call identifier.
ComputerCallIds(m) ==
  {m.tool_outputs[i].call_id : i \in {j \in DOMAIN m.tool_outputs :
                                        m.tool_outputs[j].type = "computer_call"}}
FunctionCallIds(m) == {m.tool_calls[i].id : i \in DOMAIN m.tool_calls}
PendingIds(m) == IF m.type = "ai" THEN ComputerCallIds(m) \cup FunctionCallIds(m) ELSE {}

\* ---------------------------------------------------------------- state
VARIABLES
  messages,      \* CUAState["messages"]
  session_id,    \* CUAState["session_id"]
  stream_url,    \* CUAState["stream_url"]
  browser,       \* CUAState["playwright"] and ["browser"], set together
  current_page,  \* CUAState["current_page"]
  pc,            \* the node the graph runs next, "END" or "failed"
  prev,          \* the node that ran last ("START" before the first)
  err,           \* the exception that ended the run, or "none"
  api_key,       \* whether HYPERBROWSER_API_KEY is set
  live_url,      \* the live_url of the provider's SessionDetail
  pages,         \* browser.contexts[0].pages
  log,           \* the external calls made so far, in order
  requests,      \* the requests sent to the model backend, in order
  zdr_enabled,   \* configuration["zdr_enabled"] (read by nodes/call_model.py)
  prompt         \* configuration["prompt"] (read by nodes/call_model.py)

vars == <<messages, session_id, stream_url, browser, current_page, pc, prev,
          err, api_key, live_url, pages, log, requests, zdr_enabled, prompt>>

state == <<messages, session_id, stream_url, browser, current_page>>

configuration == <<zdr_enabled, prompt>>

Ev(op, node, page, id, val) ==
  [op |-> op, node |-> node, page |-> page, id |-> id, val |-> val]

Count(op) == Cardinality({i \in DOMAIN log : log[i].op = op})

\* ------------------------------------------------------------- graph.py
is_computer_tool_call(tool_outputs) ==
  IF tool_outputs = <<>> THEN FALSE
  ELSE \A i \in DOMAIN tool_outputs : tool_outputs[i].type = "computer_call"

\* take_action_or_end without its last test: any message with extra fields
\* is taken for an action request.
take_action_or_end_unchecked(msgs) ==
  IF msgs = <<>> THEN "END"
  ELSE IF Last(msgs).kw = "empty" THEN "END"
  ELSE "take_browser_action"

\* take_action_or_end sending every non-empty conversation to the actions.
take_action_or_end_always(msgs) ==
  IF msgs = <<>> THEN "END" ELSE "take_browser_action"

take_action_or_end(msgs) ==
  IF msgs = <<>> THEN "END"
  ELSE IF Last(msgs).kw = "empty" THEN "END"
  ELSE IF ~is_computer_tool_call(ToolOutputsOf(Last(msgs)))
          /\ Len(Last(msgs).tool_calls) = 0 THEN "END"
  ELSE "take_browser_action"

\* reinvoke_model_or_end without the test of the message type.
reinvoke_model_or_end_any(msgs) ==
  IF msgs # <<>> THEN "call_model" ELSE "END"

reinvoke_model_or_end(msgs) ==
  IF msgs # <<>> /\ Last(msgs).type = "tool" THEN "call_model" ELSE "END"

\* -------------------------------------------------------------- utils.py
get_hyperbrowser_client(key) ==
  IF ~key THEN "ValueError_api_key" ELSE "none"

\* init_or_load_without_config calling the provider without a client check.
init_or_load_without_config_no_key_check(sid, key) ==
  IF sid # None THEN [err |-> "none", op |-> "get", id |-> sid]
  ELSE [err |-> "none", op |-> "create", id |-> "s_new"]

\* init_or_load_without_config that ignores the known session id.
init_or_load_without_config_create(sid, key) ==
  IF get_hyperbrowser_client(key) # "none"
    THEN [err |-> get_hyperbrowser_client(key), op |-> None, id |-> None]
  ELSE [err |-> "none", op |-> "create", id |-> "s_new"]

\* The session the provider returns: sessions.get(id) answers with the id it
\* was asked for, sessions.create with a new one.
init_or_load_without_config(sid, key) ==
  IF get_hyperbrowser_client(key) # "none"
    THEN [err |-> get_hyperbrowser_client(key), op |-> None, id |-> None]
  ELSE IF sid # None THEN [err |-> "none", op |-> "get", id |-> sid]
  ELSE [err |-> "none", op |-> "create", id |-> "s_new"]

init_or_load(sid, key) ==
  IF ~key THEN [err |-> "ValueError_api_key", op |-> None, id |-> None]
  ELSE IF get_hyperbrowser_client(key) # "none"
    THEN [err |-> get_hyperbrowser_client(key), op |-> None, id |-> None]
  ELSE IF sid # None THEN [err |-> "none", op |-> "get", id |-> sid]
  ELSE [err |-> "none", op |-> "create", id |-> "s_new"]

\* The provider call of a session acquisition, as it appears in the log.
SessionEvents(s, node) ==
  IF s.err = "none" THEN <<Ev(s.op, node, None, 0, s.id)>> ELSE <<>>

\* --------------------------------------------------- nodes/call_model.py
\* m.response_metadata["id"]
ResponseId(m) ==
  IF m.response_id = NoKey THEN [err |-> "KeyError_id", id |-> None]
  ELSE [err |-> "none", id |-> m.response_id]

\* The token computation reading the first Assistant message of the
\* conversation instead of the one next to the end.
previous_response_id_oldest(msgs) ==
  LET ais == {k \in DOMAIN msgs : msgs[k].type = "ai"}
      first == CHOOSE k \in ais : \A j \in ais : k <= j
  IN IF msgs = <<>> \/ ais = {} THEN [err |-> "none", id |-> None]
     ELSE IF Last(msgs).type \in {"tool", "ai"} THEN ResponseId(msgs[first])
     ELSE [err |-> "none", id |-> None]

previous_response_id(msgs) ==
  IF msgs = <<>> THEN [err |-> "none", id |-> None]
  ELSE IF Last(msgs).type = "tool" THEN
    IF Len(msgs) >= 2 /\ msgs[Len(msgs) - 1].type = "ai"
      THEN ResponseId(msgs[Len(msgs) - 1])
      ELSE [err |-> "none", id |-> None]
  ELSE IF Last(msgs).type = "ai" THEN ResponseId(Last(msgs))
  ELSE [err |-> "none", id |-> None]

\* if not playwright or not browser: start playwright, connect_over_cdp
ConnectEvents(b, node) ==
  IF b = None THEN <<Ev("connect", node, None, 0, None)>> ELSE <<>>

\* The page lookup that ignores CUAState["current_page"].
PageOf_first(cp, pgs) == pgs[1]

\* state.get("current_page", browser.contexts[0].pages[0])
PageOf(cp, pgs) == IF cp # None THEN cp ELSE pgs[1]

\* call_model's stream_url step with the write to the stream left out.
call_model_stream_url_silent(su, live) ==
  IF su = None THEN [url |-> live, evs |-> <<>>] ELSE [url |-> su, evs |-> <<>>]

\* if not stream_url: stream_url = session.live_url; writer({"stream_url": ...})
call_model_stream_url(su, live) ==
  IF su = None
    THEN [url |-> live, evs |-> <<Ev("emit", "call_model", None, 0, live)>>]
    ELSE [url |-> su, evs |-> <<>>]

\* BuildRequest that attaches a screenshot to the first message on every
\* request, with or without token.
BuildRequest_always_screenshot(msgs, prev_id) ==
  IF msgs # <<>> /\ Last(msgs).type = "tool" THEN
    IF prev_id = None
      THEN [err |-> "ValueError_previous_response_id", shot |-> FALSE,
            msgs |-> msgs, sent |-> <<>>]
      ELSE [err |-> "none", shot |-> TRUE,
            msgs |-> [msgs EXCEPT ![1].images = @ + 1], sent |-> <<Last(msgs)>>]
  ELSE IF msgs = <<>>
    THEN [err |-> "IndexError", shot |-> TRUE, msgs |-> msgs, sent |-> <<>>]
  ELSE IF msgs[1].content # "list"
    THEN [err |-> "AttributeError", shot |-> TRUE, msgs |-> msgs, sent |-> <<>>]
  ELSE [err |-> "none", shot |-> TRUE,
        msgs |-> [msgs EXCEPT ![1].images = @ + 1],
        sent |-> [msgs EXCEPT ![1].images = @ + 1]]

\* BuildRequest that cuts the conversation down to the tool message it sends.
BuildRequest_truncating(msgs, prev_id) ==
  IF msgs # <<>> /\ Last(msgs).type = "tool" THEN
    IF prev_id = None
      THEN [err |-> "ValueError_previous_response_id", shot |-> FALSE,
            msgs |-> msgs, sent |-> <<>>]
      ELSE [err |-> "none", shot |-> FALSE,
            msgs |-> <<Last(msgs)>>, sent |-> <<Last(msgs)>>]
  ELSE IF prev_id = None THEN
    IF msgs = <<>>
      THEN [err |-> "IndexError", shot |-> TRUE, msgs |-> msgs, sent |-> <<>>]
    ELSE IF msgs[1].content # "list"
      THEN [err |-> "AttributeError", shot |-> TRUE, msgs |-> msgs, sent |-> <<>>]
    ELSE [err |-> "none", shot |-> TRUE,
          msgs |-> [msgs EXCEPT ![1].images = @ + 1],
          sent |-> [msgs EXCEPT ![1].images = @ + 1]]
  ELSE [err |-> "none", shot |-> FALSE, msgs |-> msgs, sent |-> msgs]

\* BuildRequest that sends the whole conversation with the token too.
BuildRequest_full_history(msgs, prev_id) ==
  IF msgs # <<>> /\ Last(msgs).type = "tool" THEN
    IF prev_id = None
      THEN [err |-> "ValueError_previous_response_id", shot |-> FALSE,
            msgs |-> msgs, sent |-> <<>>]
      ELSE [err |-> "none", shot |-> FALSE, msgs |-> msgs, sent |-> msgs]
  ELSE IF prev_id = None THEN
    IF msgs = <<>>
      THEN [err |-> "IndexError", shot |-> TRUE, msgs |-> msgs, sent |-> <<>>]
    ELSE IF msgs[1].content # "list"
      THEN [err |-> "AttributeError", shot |-> TRUE, msgs |-> msgs, sent |-> <<>>]
    ELSE [err |-> "none", shot |-> TRUE,
          msgs |-> [msgs EXCEPT ![1].images = @ + 1],
          sent |-> [msgs EXCEPT ![1].images = @ + 1]]
  ELSE [err |-> "none", shot |-> FALSE, msgs |-> msgs, sent |-> msgs]

\* The request sent to the model: the messages passed to ainvoke, and the
\* conversation as the in-place append to messages[0].content leaves it.
BuildRequest(msgs, prev_id) ==
  IF msgs # <<>> /\ Last(msgs).type = "tool" THEN
    IF prev_id = None
      THEN [err |-> "ValueError_previous_response_id", shot |-> FALSE,
            msgs |-> msgs, sent |-> <<>>]
      ELSE [err |-> "none", shot |-> FALSE, msgs |-> msgs, sent |-> <<Last(msgs)>>]
  ELSE IF prev_id = None THEN
    IF msgs = <<>>
      THEN [err |-> "IndexError", shot |-> TRUE, msgs |-> msgs, sent |-> <<>>]
    ELSE IF msgs[1].content # "list"
      THEN [err |-> "AttributeError", shot |-> TRUE, msgs |-> msgs, sent |-> <<>>]
    ELSE [err |-> "none", shot |-> TRUE,
          msgs |-> [msgs EXCEPT ![1].images = @ + 1],
          sent |-> [msgs EXCEPT ![1].images = @ + 1]]
  ELSE [err |-> "none", shot |-> FALSE, msgs |-> msgs, sent |-> msgs]

\* CUAState["messages"] is reduced by appending; a None update adds nothing.
add_messages(left, right) ==
  IF right.type = "none" THEN left ELSE Append(left, right)

\* A node raised: the graph stops, CUAState keeps what the last node returned.
Fail(node, e, newlog) ==
  /\ pc' = "failed"
  /\ err' = e
  /\ prev' = node
  /\ log' = newlog
  /\ UNCHANGED <<state, api_key, live_url, pages, requests, configuration>>

CallModel ==
  /\ pc = "call_model"
  /\ Len(requests) < MaxModelCalls
  /\ LET p == previous_response_id(messages)
         s == init_or_load_without_config(session_id, api_key)
         page == PageOf(current_page, pages)
         su == call_model_stream_url(stream_url, live_url)
         b == BuildRequest(messages, p.id)
         log1 == log \o SessionEvents(s, "call_model")
                     \o ConnectEvents(browser, "call_model")
                     \o <<Ev("viewport", "call_model", page, 0, None)>>
                     \o su.evs
         log2 == log1 \o (IF b.shot
                            THEN <<Ev("screenshot", "call_model", page, 0, None)>>
                            ELSE <<>>)
         req == [token |-> p.id, msgs |-> b.sent]
     IN
     IF p.err # "none" THEN Fail("call_model", p.err, log)
     ELSE IF s.err # "none" THEN Fail("call_model", s.err, log)
     ELSE IF b.err # "none" THEN Fail("call_model", b.err, log2)
     ELSE
       /\ requests' = Append(requests, req)
       /\ log' = log2 \o <<Ev("invoke", "call_model", None, 0, p.id)>>
       /\ prev' = "call_model"
       /\ UNCHANGED <<api_key, live_url, pages, configuration>>
       /\ \/ \E reply \in Replies(Len(requests) + 1) :
               /\ messages' = add_messages(b.msgs, reply)
               /\ browser' = "browser"
               /\ session_id' = s.id
               /\ current_page' = page
               /\ stream_url' = su.url
               /\ pc' = take_action_or_end(messages')
               /\ err' = "none"
          \/ \* the model backend call raised
             /\ messages' = b.msgs
             /\ pc' = "failed"
             /\ err' = "TransientIOError"
             /\ UNCHANGED <<session_id, stream_url, browser, current_page>>

\* ----------------------------------------- nodes/take_browser_action.py
NoMessage == [type |-> "none"]

\* The actions of a batch in the order the two loops visit them: the computer
\* calls of tool_outputs (other items are only printed), then tool_calls.
ComputerCalls(tool_outputs) ==
  LET IsCall(o) == o.type = "computer_call"
      calls == SelectSeq(tool_outputs, IsCall)
  IN [i \in 1..Len(calls) |->
        [kind |-> "computer_call", name |-> "computer", id |-> calls[i].call_id]]

FunctionCalls(tool_calls) ==
  [i \in 1..Len(tool_calls) |->
     [kind |-> "function", name |-> tool_calls[i].name, id |-> tool_calls[i].id]]

\* The batch with the second loop skipped when the first one ran.
BatchActions_first_loop_only(message) ==
  IF ComputerCalls(ToolOutputsOf(message)) # <<>>
    THEN ComputerCalls(ToolOutputsOf(message))
    ELSE FunctionCalls(message.tool_calls)

BatchActions(message) ==
  ComputerCalls(ToolOutputsOf(message)) \o FunctionCalls(message.tool_calls)

\* handle_function_tool_call(page, tool_call): go_to_url drives the page,
\* get_current_url only reads it; either way the result is a ToolMessage
\* tagged with the call's id.
handle_function_tool_call(page, call) ==
  [evs |-> IF call.name = "go_to_url"
             THEN <<Ev("cmd", "take_browser_action", page, call.id, call.name)>>
             ELSE <<Ev("read", "take_browser_action", page, call.id, call.name)>>,
   msg |-> ToolMessage("url", call.id, 0)]

\* handle_computer_call(page, tool_output): one driver command on the page.
handle_computer_call(page, call) ==
  <<Ev("cmd", "take_browser_action", page, call.id, call.name)>>

\* The "page" event of the browsing context: handle_page_event(newPage).
PageEvent(newp) == <<Ev("newpage", "take_browser_action", newp, 0, None)>>

\* The loop body producing results that carry no call identifier.
OneAction_untagged(a, page, opened, newp) ==
  [evs |-> <<Ev("sleep", "take_browser_action", None, a.id, None)>>,
   page |-> page,
   msg |-> ToolMessage("image", 0, 1)]

\* The loop body capturing the screenshot before the settle delay.
OneAction_screenshot_first(a, page, opened, newp) ==
  LET after == IF opened THEN newp ELSE page
      event == IF opened THEN PageEvent(newp) ELSE <<>>
  IN IF a.kind = "computer_call"
       THEN [evs |-> handle_computer_call(page, a) \o event
                     \o <<Ev("screenshot", "take_browser_action", after, a.id, None),
                          Ev("sleep", "take_browser_action", None, a.id, None)>>,
             page |-> after,
             msg |-> ToolMessage("image", a.id, 1)]
       ELSE [evs |-> handle_function_tool_call(page, a).evs \o event
                     \o <<Ev("sleep", "take_browser_action", None, a.id, None)>>,
             page |-> after,
             msg |-> handle_function_tool_call(page, a).msg]

\* One pass of the loop body for action number i, on `page`; when ev = i the
\* context opens newp while the action's driver command is in flight.
OneAction(a, page, opened, newp) ==
  LET after == IF opened THEN newp ELSE page
      event == IF opened THEN PageEvent(newp) ELSE <<>>
  IN IF a.kind = "computer_call"
       THEN [evs |-> handle_computer_call(page, a) \o event
                     \o <<Ev("sleep", "take_browser_action", None, a.id, None),
                          Ev("screenshot", "take_browser_action", after, a.id, None)>>,
             page |-> after,
             msg |-> ToolMessage("image", a.id, 1)]
       ELSE [evs |-> handle_function_tool_call(page, a).evs \o event
                     \o <<Ev("sleep", "take_browser_action", None, a.id, None)>>,
             page |-> after,
             msg |-> handle_function_tool_call(page, a).msg]

\* The loops keeping the first result they produce instead of the last.
RECURSIVE RunActions_keep_first(_, _, _, _, _, _)
RunActions_keep_first(acts, i, page, ev, newp, tool_message) ==
  IF i > Len(acts) THEN [evs |-> <<>>, page |-> page, msg |-> tool_message]
  ELSE LET one == OneAction(acts[i], page, ev = i, newp)
           kept == IF tool_message = NoMessage THEN one.msg ELSE tool_message
           rest == RunActions_keep_first(acts, i + 1, one.page, ev, newp, kept)
       IN [evs |-> one.evs \o rest.evs, page |-> rest.page, msg |-> rest.msg]

RECURSIVE RunActions(_, _, _, _, _, _)
RunActions(acts, i, page, ev, newp, tool_message) ==
  IF i > Len(acts) THEN [evs |-> <<>>, page |-> page, msg |-> tool_message]
  ELSE LET one == OneAction(acts[i], page, ev = i, newp)
           rest == RunActions(acts, i + 1, one.page, ev, newp, one.msg)
       IN [evs |-> one.evs \o rest.evs, page |-> rest.page, msg |-> rest.msg]

\* if not stream_url: session = init_or_load(...); stream_url = session.live_url;
\* writer({"stream_url": stream_url})
take_browser_action_stream_url(su, live, s) ==
  IF su = None
    THEN [err |-> s.err, url |-> live,
          evs |-> SessionEvents(s, "take_browser_action")
                  \o <<Ev("emit", "take_browser_action", None, 0, live)>>]
    ELSE [err |-> "none", url |-> su, evs |-> <<>>]

TakeBrowserAction ==
  /\ pc = "take_browser_action"
  /\ IF messages = <<>> THEN Fail("take_browser_action", "IndexError", log)
     ELSE IF Last(messages).type # "ai"
       THEN Fail("take_browser_action", "AssertionError", log)
     ELSE IF ~is_computer_tool_call(ToolOutputsOf(Last(messages)))
             /\ Len(Last(messages).tool_calls) = 0
       THEN Fail("take_browser_action", "ValueError_no_call", log)
     ELSE
       LET s == init_or_load(session_id, api_key)
           connecting == browser = None
           log1 == log \o (IF connecting
                             THEN SessionEvents(s, "take_browser_action")
                                  \o ConnectEvents(browser, "take_browser_action")
                             ELSE <<>>)
           page == PageOf(current_page, pages)
           log2 == log1 \o <<Ev("viewport", "take_browser_action", page, 0, None)>>
           su == take_browser_action_stream_url(stream_url, live_url, s)
           acts == BatchActions(Last(messages))
           newp == PageNames[Len(pages) + 1]
       IN
       IF connecting /\ s.err # "none" THEN Fail("take_browser_action", s.err, log)
       ELSE IF su.err # "none" THEN Fail("take_browser_action", su.err, log2)
       ELSE \E ev \in 0..(IF Len(pages) - 1 < MaxNewPages THEN Len(acts) ELSE 0) :
         LET run == RunActions(acts, 1, page, ev, newp, NoMessage) IN
         /\ log' = log2 \o su.evs \o run.evs
         /\ pages' = IF ev > 0 THEN Append(pages, newp) ELSE pages
         /\ messages' = add_messages(messages, run.msg)
         /\ session_id' = session_id
         /\ stream_url' = su.url
         /\ browser' = "browser"
         /\ current_page' = run.page
         /\ pc' = reinvoke_model_or_end(messages')
         /\ prev' = "take_browser_action"
         /\ UNCHANGED <<err, api_key, live_url, requests, configuration>>

\* ------------------------------------------- nodes/call_model.py (generic)
\* The node that reads the configuration: zdr_enabled ("True", "False" or not
\* given) and prompt.  Conversation continuity is on only when zdr_enabled is
\* False.  The provider is Hyperbrowser, so get_available_tools returns.
ZdrChoices == {"True", "False", None}
PromptChoices == {None, "prompt"}

SystemMessage ==
  [type |-> "system", content |-> "str", text |-> "prompt", images |-> 0,
   kw |-> "empty", tool_outputs |-> <<>>, tool_calls |-> <<>>,
   response_id |-> NoKey, tool_call_id |-> 0]

\* _prompt_to_sys_message(prompt), as the list items it contributes
prompt_to_sys_message(p) == IF p = None THEN <<>> ELSE <<SystemMessage>>

\* The token computation with the test of zdr_enabled left out.
zdr_previous_response_id_any(msgs, zdr) ==
  IF msgs # <<>> /\ Last(msgs).type = "tool" THEN
    IF Len(msgs) >= 2 /\ msgs[Len(msgs) - 1].type = "ai"
      THEN ResponseId(msgs[Len(msgs) - 1])
      ELSE [err |-> "none", id |-> None]
  ELSE [err |-> "none", id |-> None]

zdr_previous_response_id(msgs, zdr) ==
  IF msgs # <<>> /\ Last(msgs).type = "tool" /\ zdr = "False" THEN
    IF Len(msgs) >= 2 /\ msgs[Len(msgs) - 1].type = "ai"
      THEN ResponseId(msgs[Len(msgs) - 1])
      ELSE [err |-> "none", id |-> None]
  ELSE [err |-> "none", id |-> None]

\* The messages passed to ainvoke.
zdr_request(msgs, prev_id, zdr, p) ==
  IF msgs # <<>> /\ Last(msgs).type = "tool" /\ zdr = "False" THEN
    IF prev_id = None
      THEN [err |-> "ValueError_previous_response_id", sent |-> <<>>]
      ELSE [err |-> "none", sent |-> <<Last(msgs)>>]
  ELSE [err |-> "none", sent |-> prompt_to_sys_message(p) \o msgs]

CallModelZdr ==
  /\ pc = "call_model"
  /\ Len(requests) < MaxModelCalls
  /\ LET p == zdr_previous_response_id(messages, zdr_enabled)
         b == zdr_request(messages, p.id, zdr_enabled, prompt)
     IN
     IF p.err # "none" THEN Fail("call_model", p.err, log)
     ELSE IF b.err # "none" THEN Fail("call_model", b.err, log)
     ELSE
       /\ requests' = Append(requests, [token |-> p.id, msgs |-> b.sent])
       /\ log' = log \o <<Ev("invoke", "call_model", None, 0, p.id)>>
       /\ prev' = "call_model"
       /\ UNCHANGED <<session_id, stream_url, browser, current_page,
                      api_key, live_url, pages, configuration>>
       /\ \/ \E reply \in Replies(Len(requests) + 1) :
               /\ messages' = add_messages(messages, reply)
               /\ pc' = take_action_or_end(messages')
               /\ err' = "none"
          \/ \* the model backend call raised
             /\ messages' = messages
             /\ pc' = "failed"
             /\ err' = "TransientIOError"

\* ----------------------------------------------------------------- runs
\* The conversations a caller starts the graph on.
InitialAI == AIMessage(0, "", "outputs", <<"computer_call">>, <<>>, TokenNames[1])
InitialTool == ToolMessage("image", CallId(0, 1), 1)
InitialConversations ==
  { <<>>,
    <<HumanMessage("list")>>,
    <<HumanMessage("str")>>,
    <<HumanMessage("list"), InitialAI>>,
    <<HumanMessage("list"), InitialAI, InitialTool>>,
    <<HumanMessage("list"), InitialTool>> }

Init ==
  /\ messages \in InitialConversations
  /\ session_id \in {None, "s_old"}
  /\ stream_url = None
  /\ browser = None
  /\ current_page = None
  /\ pc = "call_model"
  /\ prev = "START"
  /\ err = "none"
  /\ api_key \in BOOLEAN
  /\ live_url \in {None, "live"}
  /\ pages = <<PageNames[1]>>
  /\ log = <<>>
  /\ requests = <<>>
  /\ zdr_enabled = None
  /\ prompt = None

Next == CallModel \/ TakeBrowserAction

Spec == Init /\ [][Next]_vars

\* Runs of the graph together with direct calls of the node
\* take_browser_action(state, config) on a state of the caller's making, among
\* them conversations whose latest message requests no action.
NoRequestConversations ==
  { <<HumanMessage("list"), AIMessage(0, "text", "empty", <<>>, <<>>, TokenNames[1])>>,
    <<HumanMessage("list"), AIMessage(0, "", "other", <<>>, <<>>, TokenNames[1])>>,
    <<HumanMessage("list"),
      AIMessage(0, "", "outputs", <<"reasoning">>, <<>>, TokenNames[1])>> }

InitNode ==
  /\ \/ pc = "call_model" /\ messages \in InitialConversations
     \/ /\ pc = "take_browser_action"
        /\ messages \in InitialConversations \cup NoRequestConversations
  /\ session_id \in {None, "s_old"}
  /\ stream_url = None
  /\ browser = None
  /\ current_page = None
  /\ prev = "START"
  /\ err = "none"
  /\ api_key \in BOOLEAN
  /\ live_url \in {None, "live"}
  /\ pages = <<PageNames[1]>>
  /\ log = <<>>
  /\ requests = <<>>
  /\ zdr_enabled = None
  /\ prompt = None

SpecNode == InitNode /\ [][Next]_vars

\* The same loop with the node of nodes/call_model.py in the place of the
\* Hyperbrowser call_model, under every configuration.
InitialConversationsZdr ==
  { <<>>,
    <<HumanMessage("list")>>,
    <<HumanMessage("list"), InitialAI, InitialTool>>,
    <<HumanMessage("list"), InitialTool>> }

InitZdr ==
  /\ messages \in InitialConversationsZdr
  /\ session_id = None
  /\ stream_url = None
  /\ browser = None
  /\ current_page = None
  /\ pc = "call_model"
  /\ prev = "START"
  /\ err = "none"
  /\ api_key = TRUE
  /\ live_url = "live"
  /\ pages = <<PageNames[1]>>
  /\ log = <<>>
  /\ requests = <<>>
  /\ zdr_enabled \in ZdrChoices
  /\ prompt \in PromptChoices

NextZdr == CallModelZdr \/ TakeBrowserAction

SpecZdr == InitZdr /\ [][NextZdr]_vars

\* ------------------------------------------------------------- properties
Acquisitions == {i \in DOMAIN log : log[i].op \in {"create", "get"}}
Invocations == {i \in DOMAIN log : log[i].op = "invoke"}
\* The driver calls of an action batch.
BatchDriverCalls ==
  {i \in DOMAIN log : /\ log[i].node = "take_browser_action"
                      /\ log[i].op \in {"cmd", "read", "screenshot"}}
Dispatches == {i \in DOMAIN log : log[i].op \in {"cmd", "read"}}
LastInvocation == CHOOSE i \in Invocations : \A j \in Invocations : j <= i

\* call_model has just answered: the last message is the model's reply.
ModelReplied == prev = "call_model" /\ err = "none"
\* take_browser_action has just returned.
BatchDone == prev = "take_browser_action" /\ err = "none"

\* C1: after a model invocation, a latest Assistant message with at least one
\* pending action request (computer call or function call) is routed to
\* take_browser_action, never to END.
C1_PendingRoutesToAction ==
  (ModelReplied /\ PendingIds(Last(messages)) # {}) => pc = "take_browser_action"

\* C2: the router answers END on an empty conversation; after a model
\* invocation a reply without pending action requests is routed to END whatever
\* its text; and from END the run invokes no model and drives no browser.
C2_NoPendingEnds ==
  /\ take_action_or_end(<<>>) = "END"
  /\ [](ModelReplied /\ PendingIds(Last(messages)) = {} => pc = "END")
  /\ [][pc = "END" => /\ requests' = requests
                      /\ log' = log
                      /\ messages' = messages]_vars

C2_Witness ==
  /\ ModelReplied /\ pc = "END"
  /\ PendingIds(Last(messages)) = {}
  /\ Last(messages).text = "text"
  /\ Last(messages).kw = "outputs"

\* C3: reinvoke_model_or_end answers call_model exactly on a conversation whose
\* latest message is a tool message, and END otherwise; so after an action
\* batch the run goes to call_model exactly when the batch appended its
\* ActionResult, and otherwise ends without an error.
C3_ReinvokeIffToolMessage ==
  /\ \A n \in 0..Len(messages) :
       reinvoke_model_or_end(SubSeq(messages, 1, n)) =
         IF n > 0 /\ messages[n].type = "tool" THEN "call_model" ELSE "END"
  /\ BatchDone => /\ pc \in {"call_model", "END"}
                  /\ pc = "call_model" <=> Last(messages).type = "tool"

C3_Witness ==
  BatchDone /\ pc = "call_model" /\ Last(messages).type = "tool"

\* C4: whenever the graph is about to invoke the model again, the step before
\* was a completed action batch, the latest message is its ActionResult, and
\* every pending action request of the Assistant message before it was
\* dispatched after the previous model invocation; a model invocation is
\* never followed directly by another.
C4_NoReinvokeBeforeActions ==
  /\ prev = "call_model" => pc # "call_model"
  /\ (pc = "call_model" /\ prev # "START") =>
       /\ prev = "take_browser_action"
       /\ Len(messages) >= 2
       /\ Last(messages).type = "tool"
       /\ messages[Len(messages) - 1].type = "ai"
       /\ \A id \in PendingIds(messages[Len(messages) - 1]) :
            \E i \in Dispatches :
              /\ log[i].id = id
              /\ Invocations # {} => i > LastInvocation

C4_Witness ==
  /\ pc = "call_model" /\ prev = "take_browser_action"
  /\ Len(requests) >= 1
  /\ Cardinality(PendingIds(messages[Len(messages) - 1])) >= 2

\* C5: the live-view endpoint is written to the stream exactly once per run:
\* never twice, and once as soon as the model has been invoked.
C5_EmittedExactlyOnce ==
  /\ Count("emit") <= 1
  /\ requests # <<>> => Count("emit") = 1

\* C6: every driver call of an action batch comes after the emission of the
\* live-view endpoint.
C6_EmitBeforeFirstAction ==
  \A i \in BatchDriverCalls : \E j \in 1..(i - 1) : log[j].op = "emit"

C6_Witness ==
  /\ \E i \in BatchDriverCalls : log[i].op = "cmd"
  /\ \E j \in DOMAIN log : log[j].op = "emit" /\ log[j].node = "call_model"

\* C7: the provider's create is called at most once; every acquisition after
\* the first is a get of the id the first one returned; the session_id of
\* CUAState, once set, is that id; and no call destroys the session.
C7_OneSessionPerRun ==
  /\ Count("create") <= 1
  /\ \A i, j \in Acquisitions :
       i < j => log[j].op = "get" /\ log[j].val = log[i].val
  /\ \A i \in Acquisitions : session_id # None => log[i].val = session_id
  /\ (ModelReplied \/ BatchDone) => session_id # None
  /\ \A i \in DOMAIN log : log[i].op # "stop"

C7_Witness ==
  /\ Count("create") = 1
  /\ Count("get") >= 1
  /\ session_id = "s_new"

\* C8: no second driver connection is opened, and the session provider is
\* contacted only while CUAState holds no connection yet, that is, never after
\* a connect.
C8_AcquireOnlyWithoutConnection ==
  /\ Count("connect") <= 1
  /\ \A i \in Acquisitions : \A j \in 1..(i - 1) : log[j].op # "connect"

\* The conversation the last request was built from.
RequestMade == prev = "call_model" /\ err \in {"none", "TransientIOError"}
Conversation ==
  IF err = "none" THEN SubSeq(messages, 1, Len(messages) - 1) ELSE messages
HasToken(m) == m.type = "ai" /\ m.response_id \notin {NoKey, None}

\* C9: a request built from a conversation ending in a tool message whose
\* predecessor is an Assistant message with a token carries that token and
\* exactly that tool message; a request built from a conversation not ending
\* in a tool message carries the entire conversation.
C9_RequestPayload ==
  RequestMade =>
    LET conv == Conversation
        req == Last(requests)
    IN /\ (/\ Len(conv) >= 2
           /\ Last(conv).type = "tool"
           /\ HasToken(conv[Len(conv) - 1]))
          => /\ req.token = conv[Len(conv) - 1].response_id
             /\ req.msgs = <<Last(conv)>>
       /\ (conv = <<>> \/ Last(conv).type # "tool") => req.msgs = conv

C9_Witness ==
  /\ RequestMade
  /\ Len(requests) = 2
  /\ Last(requests).token = TokenNames[2]
  /\ Len(Last(requests).msgs) = 1
  /\ Len(requests[1].msgs) = 1
  /\ requests[1].msgs[1].type = "human"

\* No continuation token can be resolved for a conversation ending in a tool
\* message.
NoResolvableToken(conv) ==
  /\ conv # <<>>
  /\ Last(conv).type = "tool"
  /\ \/ Len(conv) < 2
     \/ ~HasToken(conv[Len(conv) - 1])

\* C10: a model invocation on a conversation ending in a tool message with no
\* resolvable token fails with the error "Cannot process tool message without
\* a previous_response_id", sends nothing to the model backend and appends no
\* message.
C10_NoTokenIsProtocolViolation ==
  (prev = "call_model" /\ api_key /\ NoResolvableToken(Conversation))
  => /\ pc = "failed"
     /\ err = "ValueError_previous_response_id"
     /\ Last(messages).type = "tool"
     /\ (log # <<>> => Last(log).op # "invoke")

\* C11: under SpecZdr, with conversation continuity disabled (zdr_enabled is
\* not False), no request carries a continuation token, and every request,
\* the first one and each one built after an action batch, carries the entire
\* conversation, preceded by nothing but the configured system prompt.
C11_DisabledSendsFullHistory ==
  zdr_enabled # "False" =>
    /\ \A i \in DOMAIN requests : requests[i].token = None
    /\ RequestMade =>
         Last(requests).msgs = prompt_to_sys_message(prompt) \o Conversation

C11_Witness ==
  /\ RequestMade
  /\ zdr_enabled = "True"
  /\ Len(requests) = 2
  /\ Last(Conversation).type = "tool"
  /\ HasToken(Conversation[Len(Conversation) - 1])
  /\ Last(requests).msgs = Conversation
  /\ Len(requests[1].msgs) = 1

\* C12: the ActionResult an action batch appends is preceded immediately by
\* an Assistant message, and its call identifier is that of one of this
\* message's pending action requests.
C12_ResultAnswersPendingRequest ==
  (BatchDone /\ Last(messages).type = "tool") =>
    /\ Len(messages) >= 2
    /\ messages[Len(messages) - 1].type = "ai"
    /\ Last(messages).tool_call_id \in PendingIds(messages[Len(messages) - 1])

C12_Witness ==
  /\ BatchDone
  /\ Last(messages).type = "tool"
  /\ Last(messages).tool_call_id \in FunctionCallIds(messages[Len(messages) - 1])
  /\ ComputerCallIds(messages[Len(messages) - 1]) # {}
  /\ Len(requests) = 2

\* The Assistant message the batch that has just returned was run on.
BatchMessage == messages[Len(messages) - 1]
ResultIds == {messages[n].tool_call_id : n \in {k \in DOMAIN messages :
                                                  messages[k].type = "tool"}}

\* C13: after an action batch, every pending action request of the Assistant
\* message the batch was run on has an ActionResult with its identifier in
\* the conversation, also when the message carried several requests.
C13_EveryRequestAnswered ==
  BatchDone => \A id \in PendingIds(BatchMessage) : id \in ResultIds

\* The dispatches a step adds to the log.
NewDispatches == {i \in (Len(log) + 1)..Len(log') : log'[i].op \in {"cmd", "read"}}

\* C14: a step of take_browser_action on an Assistant message with pending
\* action requests that does not fail dispatches every one of them and
\* appends exactly one message to the conversation: a tool message tagged
\* with the identifier of the action dispatched last, an image for a computer
\* call and the function's answer for a function call.
C14_OneResultOfLastAction ==
  [][(pc = "take_browser_action" /\ pc' # "failed"
      /\ PendingIds(Last(messages)) # {})
     => /\ Len(messages') = Len(messages) + 1
        /\ SubSeq(messages', 1, Len(messages)) = messages
        /\ Last(messages').type = "tool"
        /\ {log'[i].id : i \in NewDispatches} = PendingIds(Last(messages))
        /\ \E i \in NewDispatches :
             /\ \A j \in NewDispatches : j <= i
             /\ Last(messages').tool_call_id = log'[i].id
             /\ Last(messages').text =
                  IF log'[i].val = "computer" THEN "image" ELSE "url"]_vars

C14_Witness ==
  /\ BatchDone
  /\ Cardinality(PendingIds(BatchMessage)) = MaxOutputs + MaxToolCalls
  /\ Last(messages).type = "tool"
  /\ messages[Len(messages) - 1].type = "ai"
  /\ Last(messages).text = "url"

\* The action requests of an Assistant message in the order the message lists
\* them: the computer calls of tool_outputs, then the function calls.
RequestOrder(m) ==
  LET IsCall(o) == o.type = "computer_call"
      cc == SelectSeq(ToolOutputsOf(m), IsCall)
  IN [i \in 1..Len(cc) |-> cc[i].call_id]
     \o [j \in 1..Len(m.tool_calls) |-> m.tool_calls[j].id]

\* What a step adds to the log, and among it the events of the actions.
IsActionEvent(e) == e.op \in {"cmd", "read", "sleep", "screenshot"}
IsDispatch(e) == e.op \in {"cmd", "read"}
NewActionEvents == SelectSeq(SubSeq(log', Len(log) + 1, Len(log')), IsActionEvent)

\* C15: in a step of take_browser_action the dispatches follow the order of
\* the requests in the Assistant message; the events of a computer call are
\* its driver command, its settle delay, its screenshot, those of a function
\* call are its dispatch and its settle delay; and the events of one action
\* are contiguous, so an action is complete before the next one is dispatched.
C15_ActionsInOrderNoOverlap ==
  [][(pc = "take_browser_action" /\ pc' # "failed") =>
     LET m == Last(messages)
         A == NewActionEvents
         D == SelectSeq(A, IsDispatch)
         Closes(k) == \/ A[k].op = "screenshot"
                      \/ A[k].op = "sleep" /\ A[k].id \in FunctionCallIds(m)
     IN /\ [i \in 1..Len(D) |-> D[i].id] = RequestOrder(m)
        /\ A # <<>> /\ IsDispatch(A[1]) /\ Closes(Len(A))
        /\ \A k \in DOMAIN A :
             /\ IsDispatch(A[k]) =>
                  /\ A[k + 1].op = "sleep" /\ A[k + 1].id = A[k].id
                  /\ k > 1 => Closes(k - 1)
                  /\ A[k].op = "read" => A[k].id \in FunctionCallIds(m)
             /\ A[k].op = "sleep" =>
                  /\ IsDispatch(A[k - 1])
                  /\ A[k].id \in ComputerCallIds(m) =>
                       /\ k < Len(A)
                       /\ A[k + 1].op = "screenshot" /\ A[k + 1].id = A[k].id
             /\ A[k].op = "screenshot" =>
                  /\ A[k - 1].op = "sleep" /\ A[k - 1].id = A[k].id
                  /\ A[k].id \in ComputerCallIds(m)]_vars

C15_Witness ==
  /\ BatchDone
  /\ Len(RequestOrder(BatchMessage)) = MaxOutputs + MaxToolCalls
  /\ Count("screenshot") >= MaxOutputs
  /\ Last(log).op = "sleep"

ContractErrors == {"IndexError", "AssertionError", "ValueError_no_call"}

\* C16: under SpecNode, (a) a step of take_browser_action on a conversation
\* whose latest message has no pending action request fails with one of the
\* node's entry errors, adds nothing to the log and leaves CUAState as it
\* was; (b) whenever the router has sent a model reply to take_browser_action
\* the latest message is an Assistant message with a pending action request;
\* and (c) the entry errors occur only in a node called directly, never in a
\* step the graph's router has entered.
C16_NoRequestFailsButNeverRouted ==
  /\ [][(pc = "take_browser_action"
         /\ (messages = <<>> \/ PendingIds(Last(messages)) = {}))
        => /\ pc' = "failed"
           /\ err' \in ContractErrors
           /\ log' = log
           /\ state' = state]_vars
  /\ []((pc = "take_browser_action" /\ prev # "START")
        => /\ prev = "call_model"
           /\ Last(messages).type = "ai"
           /\ PendingIds(Last(messages)) # {})
  /\ [][(pc = "take_browser_action" /\ prev # "START")
        => err' \notin ContractErrors]_vars

C16_Witness ==
  /\ pc = "failed"
  /\ err = "ValueError_no_call"
  /\ prev = "take_browser_action"
  /\ Last(messages).type = "ai"
  /\ Last(messages).kw = "outputs"
  /\ log = <<>>

\* The calls made on a page, and the "page" events of the browsing context.
DriverCalls ==
  {i \in DOMAIN log : log[i].op \in {"cmd", "read", "screenshot", "viewport"}}
PageEvents == {i \in DOMAIN log : log[i].op = "newpage"}
LatestPageEvent == CHOOSE j \in PageEvents : \A k \in PageEvents : k <= j

\* C17: every call made on a page after a "page" event of a batch, in the
\* rest of that batch and in every later model invocation and batch, is made
\* on the page of the latest such event, and from that batch's return on
\* CUAState["current_page"] is that page.
C17_NewPageBecomesCurrent ==
  /\ \A i \in DriverCalls : \A j \in PageEvents :
       (j < i /\ \A k \in PageEvents : k <= j \/ k > i)
       => log[i].page = log[j].page
  /\ PageEvents # {} => current_page = log[LatestPageEvent].page

C17_Witness ==
  \E i, j, k \in DOMAIN log :
    /\ i < j /\ j < k
    /\ log[i].op = "newpage"
    /\ log[j].op = "cmd" /\ log[j].page = log[i].page
    /\ log[k].node = "call_model" /\ log[k].page = log[i].page
    /\ current_page = log[i].page

\* C18: under SpecNode, without the API key the provider is never asked to
\* create or to get a session and no driver connection is opened; a node that
\* comes to acquire the session fails with the configuration error, and every
\* step leaves CUAState and the log as they were.
C18_MissingKeyFailsBeforeProvider ==
  /\ [](~api_key => /\ Acquisitions = {}
                    /\ Count("connect") = 0
                    /\ browser = None)
  /\ [][~api_key =>
          /\ pc' = "failed"
          /\ state' = state
          /\ log' = log
          /\ \/ err' = "ValueError_api_key"
             \/ pc = "take_browser_action" /\ err' \in ContractErrors]_vars

C18_Witness ==
  /\ ~api_key
  /\ pc = "failed"
  /\ err = "ValueError_api_key"
  /\ prev = "call_model"
  /\ session_id = None
  /\ log = <<>>

\* C19 as stated: every step leaves the messages already in the conversation
\* in place and unchanged, a model invocation that returns adds exactly one
\* message and an action batch at most one.
C19_AppendOnly ==
  [][/\ Len(messages') \in {Len(messages), Len(messages) + 1}
     /\ SubSeq(messages', 1, Len(messages)) = messages
     /\ (pc = "call_model" /\ pc' # "failed") => Len(messages') = Len(messages) + 1
    ]_vars

\* C19, amended: no step removes or reorders a message; a model invocation
\* that returns adds exactly one message, the reply, an action batch that
\* returns at most one, a tool message, and a step that fails none; every
\* message but the first keeps its content, and the first is changed only by
\* a model invocation that sends a request without continuation token, which
\* appends one screenshot to its content.
C19_AppendOnlyButFirstMessage ==
  [][LET n == Len(messages) IN
     /\ Len(messages') \in {n, n + 1}
     /\ \A k \in 2..n : messages'[k] = messages[k]
     /\ (n >= 1 /\ messages'[1] # messages[1]) =>
          /\ pc = "call_model"
          /\ Len(requests') = Len(requests) + 1
          /\ Last(requests').token = None
          /\ messages'[1] = [messages[1] EXCEPT !.images = @ + 1]
     /\ (pc = "call_model" /\ pc' # "failed") =>
          Len(messages') = n + 1 /\ Last(messages').type = "ai"
     /\ (pc = "take_browser_action" /\ pc' # "failed" /\ Len(messages') = n + 1)
          => Last(messages').type = "tool"
     /\ pc' = "failed" => Len(messages') = n
    ]_vars

C19_Witness ==
  /\ ModelReplied
  /\ Len(requests) = 2
  /\ Len(messages) = 4
  /\ messages[1].images = 1
  /\ messages[3].type = "tool"

\* C20: a request that carries a continuation token carries the response id
\* of the last Assistant message of the conversation it was built from, also
\* when the conversation holds older Assistant messages with other ids.
C20_TokenOfLatestAssistantMessage ==
  (RequestMade /\ Last(requests).token # None) =>
    LET conv == Conversation IN
    \E k \in DOMAIN conv :
      /\ conv[k].type = "ai"
      /\ \A j \in DOMAIN conv : j > k => conv[j].type # "ai"
      /\ Last(requests).token = conv[k].response_id

C20_Witness ==
  /\ RequestMade
  /\ Len(requests) = 2
  /\ requests[1].token = TokenNames[1]
  /\ requests[2].token = TokenNames[2]
  /\ Conversation[2].response_id = TokenNames[1]
  /\ Conversation[4].response_id = TokenNames[2]

\* The screenshots call_model has captured, and those a step adds.
ModelScreenshots ==
  {i \in DOMAIN log : log[i].op = "screenshot" /\ log[i].node = "call_model"}
NewModelScreenshots ==
  {i \in (Len(log) + 1)..Len(log') :
     log'[i].op = "screenshot" /\ log'[i].node = "call_model"}

\* C21: in a run call_model captures at most one screenshot and the first
\* message holds at most one image; a step captures a screenshot only if it
\* is the first model invocation of the run and no continuation token is
\* resolved; and a step changes the first message only by adding the one
\* image in such an invocation, whose request then carries no token and the
\* whole conversation, the image included.
C21_ScreenshotOnlyOnFirstInvocation ==
  /\ [](/\ Cardinality(ModelScreenshots) <= 1
        /\ messages # <<>> => messages[1].images <= 1)
  /\ [][NewModelScreenshots # {} =>
          /\ pc = "call_model" /\ prev = "START" /\ requests = <<>>
          /\ Cardinality(NewModelScreenshots) = 1
          /\ \A i \in NewModelScreenshots :
               log'[i].page = PageOf(current_page, pages)
          /\ \A i \in (Len(log) + 1)..Len(log') :
               log'[i].op = "invoke" => log'[i].val = None]_vars
  /\ [][(messages # <<>> /\ messages'[1] # messages[1]) =>
          /\ NewModelScreenshots # {}
          /\ Len(requests') = 1
          /\ requests'[1].token = None
          /\ requests'[1].msgs = [messages EXCEPT ![1].images = @ + 1]
          /\ messages'[1] = [messages[1] EXCEPT !.images = @ + 1]]_vars

C21_Witness ==
  /\ RequestMade
  /\ Len(requests) = 2
  /\ Cardinality(ModelScreenshots) = 1
  /\ messages[1].images = 1
  /\ requests[1].msgs[1].images = 1
  /\ requests[2].token # None

\* C22: a step of call_model that fails with "Cannot process tool message
\* without a previous_response_id" has added to the log no session create or
\* get, no driver connect and no write to the stream, and leaves CUAState as
\* it was.
C22_NoTokenFailureHasNoSideEffects ==
  [][(pc = "call_model" /\ err' = "ValueError_previous_response_id") =>
       /\ \A i \in (Len(log) + 1)..Len(log') :
            log'[i].op \notin {"create", "get", "connect", "emit"}
       /\ state' = state]_vars

====
